---- MODULE Spec2Model ----
(***************************************************************************)
(* Model of the WebGL particle-line animation (class ParticleSystem of     *)
(* src/collection_loading_animation/src/script.ts).                        *)
(*                                                                         *)
(* Numbers.  The program computes in IEEE doubles; the model computes in   *)
(* fixed point: a length or an angle v is the integer v * One (One = 1000, *)
(* i.e. thousandths, milliradians).  Math.random() returns a value of      *)
(* [0, 1), i.e. an integer of 0 .. One-1.                                  *)
(*                                                                         *)
(* Handlers.  JavaScript runs every handler (window load, an animation     *)
(* frame callback, a resize event, a call of a public method) to           *)
(* completion, so each one is one action.                                  *)
(***************************************************************************)
EXTENDS Integers, Sequences, FiniteSets

----------------------------------------------------------------------------
(* Bounds of the model *)

\* The particle count createParticles installs (80000 in the program),
\* scaled down so that every particle can be enumerated.
DefaultNumParticles == 2

\* Frames run on one generation of particles (the rotation is unbounded in
\* the program: it is never wrapped).
MaxTicks == 3

\* setParticleCount(count) is called with count in 0 .. MaxCount.
MaxCount == 4

\* The pure grid placement is explored for n in 0 .. MaxGridN.
MaxGridN == 16

\* The line count of the standalone script (numLines, 80000 in the
\* program), scaled down so that every line can be enumerated.
NumLines == 3

\* Frames the standalone script runs (its rotations are unbounded too).
MaxSceneFrames == 2

----------------------------------------------------------------------------
(* Fixed-point numbers and the trigonometric functions *)

\* The literal 1.0
One == 1000

\* Math.PI
Pi == 3142

HalfPi == Pi \div 2
TwoPi  == 2 * Pi

\* a * b of two fixed-point numbers
Mul(a, b) == (a * b) \div One

\* cos on [0, pi/2], by its Taylor polynomial of degree 6
CosQ(x) ==
  LET x2 == Mul(x, x)
      x4 == Mul(x2, x2)
      x6 == Mul(x4, x2)
  IN  One - (x2 \div 2) + (x4 \div 24) - (x6 \div 720)

\* Math.cos: periodic, so an angle of any size is reduced first
Cos(a) ==
  LET t == a % TwoPi
  IN  IF t <= HalfPi THEN CosQ(t)
      ELSE IF t <= Pi THEN 0 - CosQ(Pi - t)
      ELSE IF t <= Pi + HalfPi THEN 0 - CosQ(t - Pi)
      ELSE CosQ(TwoPi - t)

\* Math.sin(a) = cos(a - pi/2)
Sin(a) == Cos(a + TwoPi - HalfPi)

----------------------------------------------------------------------------
(* createParticles: the grid *)

\* Variant: Math.floor in place of Math.ceil
GridWidthFloor(n) == CHOOSE w \in 0..n : w * w <= n /\ (w + 1) * (w + 1) > n

\* Math.ceil(Math.sqrt(n))
GridWidth(n) == CHOOSE w \in 0..n : w * w >= n /\ \A v \in 0..(w - 1) : v * v < n

\* 2.0 / gridWidth   (only evaluated inside the loop, where gridWidth >= 1)
CellSize(gridWidth) == (2 * One) \div gridWidth

\* (i % gridWidth) * cellSize - 1.0
PositionX(i, gridWidth) == (i % gridWidth) * CellSize(gridWidth) - One

\* Math.floor(i / gridWidth) * cellSize - 1.0
PositionY(i, gridWidth) == (i \div gridWidth) * CellSize(gridWidth) - One

----------------------------------------------------------------------------
(* createParticles: the random parameters *)

\* The values of Math.random() the model draws, one triple per particle
\* (for rotation, speed and radius, in the order of the calls).
RandomDraws == { <<0, 0, 0>>, <<999, 500, 999>> }

\* Math.random() * Math.PI * 2
RandomRotation(r) == Mul(Mul(r, Pi), 2 * One)

\* Math.random() * 0.02 + 0.01
RandomSpeed(r) == Mul(r, 20) + 10

\* Math.random() * 0.1 + 0.05
RandomRadius(r) == Mul(r, 100) + 50

\* The particle pushed for index i (i from 0)
NewParticle(i, gridWidth, draw) ==
  [ position |-> [ x |-> PositionX(i, gridWidth), y |-> PositionY(i, gridWidth) ],
    rotation |-> RandomRotation(draw[1]),
    speed    |-> RandomSpeed(draw[2]),
    radius   |-> RandomRadius(draw[3]) ]

\* this.numParticles = 80000: the value createParticles installs, whatever
\* this.numParticles held before (prev)
CreatedNumParticles(prev) == DefaultNumParticles

\* Variant: one point per particle, new Float32Array(n * 3)
NewVerticesOnePoint(n) == [ k \in 1..(n * 3) |-> 0 ]

\* new Float32Array(n * 6): zero filled
NewVertices(n) == [ k \in 1..(n * 6) |-> 0 ]

\* The particles array after the loop; draws[i+1] are particle i's draws
NewParticles(n, draws) ==
  [ k \in 1..n |-> NewParticle(k - 1, GridWidth(n), draws[k]) ]

\* The one triple drawn where the particles' values do not matter
FixedDraws == { <<999, 500, 999>> }

\* All the ways to draw the random numbers of n particles from `from`
DrawsFor(n, from) == [ 1..n -> from ]

----------------------------------------------------------------------------
(* updateParticles *)

\* Variant: the rotation is wrapped into [0, 2 pi)
AdvanceWrapped(p) == [ p EXCEPT !.rotation = (p.rotation + p.speed) % TwoPi ]

\* Variant: the tick also damps the radius
AdvanceDamped(p) ==
  [ p EXCEPT !.rotation = p.rotation + p.speed, !.radius = p.radius - 1 ]

\* particle.rotation += particle.speed
Advance(p) == [ p EXCEPT !.rotation = p.rotation + p.speed ]

\* Variant: the end point's y is written with the start point's sign
SegmentSignSlip(p) ==
  LET cos == Mul(Cos(p.rotation), p.radius)
      sin == Mul(Sin(p.rotation), p.radius)
  IN  << p.position.x + cos, p.position.y + sin, 0,
         p.position.x - cos, p.position.y + sin, 0 >>

\* The six floats written for a particle (after its rotation advanced)
Segment(p) ==
  LET cos == Mul(Cos(p.rotation), p.radius)
      sin == Mul(Sin(p.rotation), p.radius)
  IN  << p.position.x + cos, p.position.y + sin, 0,
         p.position.x - cos, p.position.y - sin, 0 >>

\* The particles after the loop
TickParticles(ps) == [ k \in 1..Len(ps) |-> Advance(ps[k]) ]

\* Variant: the end points are computed before the rotation advances
TickVerticesStale(ps, vs) ==
  [ k \in 1..Len(vs) |->
      IF (k - 1) \div 6 < Len(ps)
      THEN Segment(ps[((k - 1) \div 6) + 1])[((k - 1) % 6) + 1]
      ELSE vs[k] ]

\* The vertices array after the loop: slots idx .. idx+5 of each particle
\* are written, any other slot of the array is left as it was
TickVertices(ps, vs) ==
  [ k \in 1..Len(vs) |->
      IF (k - 1) \div 6 < Len(ps)
      THEN Segment(Advance(ps[((k - 1) \div 6) + 1]))[((k - 1) % 6) + 1]
      ELSE vs[k] ]

----------------------------------------------------------------------------
(* draw, animate and the constructor *)

\* The calls draw() issues on the graphics backend, in order
DrawCalls == << "clear", "bufferData", "drawArrays", "flush" >>

\* animate: draw(), then requestAnimationFrame(this.animate)
AnimateCalls == DrawCalls \o << "requestAnimationFrame" >>

\* Variant: the count of lines in place of the count of vertices
DrawnCountLines(n) == n

\* The vertex count handed to drawArrays: this.numParticles * 2
DrawnCount(n) == n * 2

\* Variant: animate does not request the next frame
AfterFrameNotRequested(pending) == pending - 1

\* The pending animation-frame callbacks after a callback ran: the host
\* consumed the one it fired, animate requested one
AfterFrame(pending) == (pending - 1) + 1

\* The steps of the constructor that can fail, in the order they run
InitSteps ==
  << "getElementById",         \* constructor
     "getContext",             \* initWebGL
     "createVertexShader",     \* compileShader(vertexSource)
     "compileVertexShader",
     "createFragmentShader",   \* compileShader(fragmentSource)
     "compileFragmentShader",
     "createProgram",          \* initShaders
     "linkProgram",
     "getUniformLocation",     \* setupScene
     "createBuffer" >>         \* createParticles

NumInitSteps == Len(InitSteps)

\* Variant: a failing step is ignored and the constructor goes on
ReachedAnyway(fail, step) == TRUE

\* fail = 0: no step fails; fail = k: step k fails, and throws.
\* Whether the code that follows step `step` runs
Reached(fail, step) == fail = 0 \/ fail > step

\* The steps that completed
StepsRun(fail) ==
  [ k \in { j \in 1..NumInitSteps : Reached(fail, j) } |-> InitSteps[k] ]

\* window.innerWidth, window.innerHeight
WindowSizes == { <<800, 600>> }

\* window.devicePixelRatio; 0 stands for a missing (falsy) value
PixelRatios == { 0, 2 }

\* resize: canvas.width, canvas.height
CanvasSize(size, ratio) ==
  LET pixelRatio == IF ratio = 0 THEN 1 ELSE ratio
  IN  << size[1] * pixelRatio, size[2] * pixelRatio >>

Rotations(ps) == [ k \in 1..Len(ps) |-> ps[k].rotation ]

----------------------------------------------------------------------------
(* State *)

VARIABLES
  phase,            \* "unloaded", "running" (constructed), "failed" (threw)
  failedAt,         \* the step of InitSteps that threw, 0 if none
  stepsDone,        \* the steps of InitSteps that completed
  errorsLogged,     \* console.error calls of the load handler
  canvas,           \* << canvas.width, canvas.height >>
  resizeListeners,  \* resize listeners registered on window
  numParticles,     \* this.numParticles
  particles,        \* this.particles
  vertices,         \* this.vertices
  uploaded,         \* the data of the latest bufferData call
  drawCount,        \* the count of the latest drawArrays call, -1 if none
  calls,            \* backend and host calls of the latest handler, in order
  pendingFrames,    \* animation-frame callbacks requested and not yet fired
  cleaned,          \* cleanup() was called
  requested,        \* count of the latest setParticleCount(count), -1 if none
  initialRotation,  \* history: each particle's rotation when it was created
  age,              \* history: updateParticles calls since createParticles
  frameBit,         \* history: flips at every draw
  gridN,            \* grid placement alone: the particle count n
  gridAnchors,      \* grid placement alone: the anchors of particles 0 .. i-1
  scene,            \* standalone script: "unloaded", "running", "failed"
  targetArr,        \* standalone script: targetArr
  lineVertices,     \* standalone script: vertices
  picked,           \* history: the target index of each line visited by the
                    \*   latest draw00, "NaN" where there was no target
  accessed,         \* history: indices of vertices the latest draw00 touched
  threw,            \* history: the latest draw00 threw a TypeError
  sceneDrawn,       \* count of the latest drawArrays of drawScene, -1 if none
  sceneFrames,      \* history: draw00 calls so far
  scenePending,     \* animation-frame callbacks requested and not yet fired
  timerPending      \* a setTimeout(timer, 1500) is pending

sysVars ==
  << phase, failedAt, stepsDone, errorsLogged, canvas, resizeListeners,
     numParticles, particles, vertices, uploaded, drawCount, calls,
     pendingFrames, cleaned, requested, initialRotation, age, frameBit >>

gridVars == << gridN, gridAnchors >>

sceneVars ==
  << scene, targetArr, lineVertices, picked, accessed, threw, sceneDrawn,
     sceneFrames, scenePending, timerPending >>

vars == << sysVars, gridVars, sceneVars >>

\* Before the window's load event
SysInit ==
  /\ phase = "unloaded"
  /\ failedAt = 0
  /\ stepsDone = << >>
  /\ errorsLogged = 0
  /\ canvas = << 0, 0 >>
  /\ resizeListeners = 0
  /\ numParticles = 0
  /\ particles = << >>
  /\ vertices = << >>
  /\ uploaded = << >>
  /\ drawCount = -1
  /\ calls = << >>
  /\ pendingFrames = 0
  /\ cleaned = FALSE
  /\ requested = -1
  /\ initialRotation = << >>
  /\ age = 0
  /\ frameBit = 0

\* The standalone script before window.onload
SceneInit ==
  /\ scene = "unloaded"
  /\ targetArr = << >>
  /\ lineVertices = << >>
  /\ picked = << >>
  /\ accessed = { }
  /\ threw = FALSE
  /\ sceneDrawn = -1
  /\ sceneFrames = 0
  /\ scenePending = 0
  /\ timerPending = FALSE

Init ==
  /\ SysInit
  /\ SceneInit
  /\ gridN = 0
  /\ gridAnchors = << >>

----------------------------------------------------------------------------
(* Handlers *)

\* window 'load': new ParticleSystem('webgl-canvas') inside try/catch.
\* A constructor that throws keeps what it did until then: the canvas size,
\* the resize listener (whose closure keeps the object alive) and, when
\* createBuffer fails, the particles and the zero-filled vertices that
\* createParticles made before it.
LoadWith(from) ==
  /\ phase = "unloaded"
  /\ \E fail \in 0..NumInitSteps, size \in WindowSizes, ratio \in PixelRatios,
        draws \in DrawsFor(CreatedNumParticles(numParticles), from) :
       LET n   == CreatedNumParticles(numParticles)
           ps0 == NewParticles(n, draws)
           vs0 == NewVertices(n)
           made == Reached(fail, 9)               \* createParticles is reached
           runs == Reached(fail, NumInitSteps)    \* this.animate() is reached
       IN  /\ phase' = IF fail = 0 THEN "running" ELSE "failed"
           /\ failedAt' = fail
           /\ stepsDone' = StepsRun(fail)
           /\ errorsLogged' = IF fail = 0 THEN 0 ELSE 1
           /\ canvas' = IF Reached(fail, 2) THEN CanvasSize(size, ratio) ELSE canvas
           /\ resizeListeners' = IF Reached(fail, 2) THEN 1 ELSE 0
           /\ numParticles' = IF made THEN n ELSE numParticles
           /\ particles' = IF runs THEN TickParticles(ps0)
                           ELSE IF made THEN ps0 ELSE particles
           /\ vertices' = IF runs THEN TickVertices(ps0, vs0)
                          ELSE IF made THEN vs0 ELSE vertices
           /\ uploaded' = IF runs THEN TickVertices(ps0, vs0) ELSE uploaded
           /\ drawCount' = IF runs THEN DrawnCount(n) ELSE drawCount
           /\ calls' = (IF Reached(fail, 2) THEN << "viewport" >> ELSE << >>)
                       \o (IF Reached(fail, 9) THEN << "createBuffer" >> ELSE << >>)
                       \o (IF runs THEN << "bindBuffer" >> \o AnimateCalls ELSE << >>)
           /\ pendingFrames' = IF runs THEN pendingFrames + 1 ELSE pendingFrames
           /\ initialRotation' = IF made THEN Rotations(ps0) ELSE initialRotation
           /\ age' = IF runs THEN 1 ELSE age
           /\ frameBit' = IF runs THEN 1 - frameBit ELSE frameBit
  /\ UNCHANGED << cleaned, requested, gridVars,
                  sceneVars >>

\* The host fires a pending animation-frame callback: animate
Animate ==
  /\ phase = "running"
  /\ pendingFrames > 0
  /\ age < MaxTicks
  /\ particles' = TickParticles(particles)
  /\ vertices' = TickVertices(particles, vertices)
  /\ uploaded' = TickVertices(particles, vertices)
  /\ drawCount' = DrawnCount(numParticles)
  /\ calls' = AnimateCalls
  /\ pendingFrames' = AfterFrame(pendingFrames)
  /\ age' = age + 1
  /\ frameBit' = 1 - frameBit
  /\ UNCHANGED << phase, failedAt, stepsDone, errorsLogged, canvas,
                  resizeListeners, numParticles, cleaned, requested,
                  initialRotation, gridVars,
                  sceneVars >>

\* setParticleCount(count): this.numParticles = count; this.createParticles().
\* createBuffer may return null, and createParticles then throws after it
\* replaced the particles and the vertices.
SetParticleCountWith(from) ==
  /\ phase = "running"
  /\ \E count \in 0..MaxCount, bufferOk \in BOOLEAN :
     \E draws \in DrawsFor(CreatedNumParticles(count), from) :
       LET n == CreatedNumParticles(count)
       IN  /\ numParticles' = n
           /\ particles' = NewParticles(n, draws)
           /\ vertices' = NewVertices(n)
           /\ initialRotation' = Rotations(NewParticles(n, draws))
           /\ requested' = count
           /\ calls' = IF bufferOk THEN << "createBuffer", "bindBuffer" >>
                                   ELSE << "createBuffer" >>
  /\ age' = 0
  /\ UNCHANGED << phase, failedAt, stepsDone, errorsLogged, canvas,
                  resizeListeners, uploaded, drawCount, pendingFrames, cleaned,
                  frameBit, gridVars,
                  sceneVars >>

\* window 'resize': the listener initWebGL registered calls resize()
Resize ==
  /\ resizeListeners > 0
  /\ \E size \in WindowSizes, ratio \in PixelRatios :
       canvas' = CanvasSize(size, ratio)
  /\ calls' = << "viewport" >>
  /\ UNCHANGED << phase, failedAt, stepsDone, errorsLogged, resizeListeners,
                  numParticles, particles, vertices, uploaded, drawCount,
                  pendingFrames, cleaned, requested, initialRotation, age,
                  frameBit, gridVars,
                  sceneVars >>

\* cleanup(): removeEventListener is given a new arrow function, which is
\* no registered listener, so it removes none
Cleanup ==
  /\ phase = "running"
  /\ cleaned' = TRUE
  /\ calls' = << "deleteProgram", "deleteBuffer" >>
  /\ UNCHANGED << phase, failedAt, stepsDone, errorsLogged, canvas,
                  resizeListeners, numParticles, particles, vertices, uploaded,
                  drawCount, pendingFrames, requested, initialRotation, age,
                  frameBit, gridVars,
                  sceneVars >>

Load == LoadWith(RandomDraws)

SetParticleCount == SetParticleCountWith(RandomDraws)

Next == Load \/ Animate \/ SetParticleCount \/ Resize \/ Cleanup

Spec == Init /\ [][Next]_vars

----------------------------------------------------------------------------
(* The frame loop under fairness: the host fires every pending             *)
(* animation-frame callback.  The handlers are the same; the random        *)
(* numbers, which no handler's control flow reads, are drawn from          *)
(* FixedDraws.                                                             *)

FrameLoad == LoadWith(FixedDraws)

FrameSetParticleCount == SetParticleCountWith(FixedDraws)

FrameNext == FrameLoad \/ Animate \/ FrameSetParticleCount \/ Resize \/ Cleanup

FairSpec == Init /\ [][FrameNext]_vars /\ WF_vars(Animate)

----------------------------------------------------------------------------
(* The grid placement of createParticles alone, for every count n *)

GridInit ==
  /\ SysInit
  /\ SceneInit
  /\ gridN \in 0..MaxGridN
  /\ gridAnchors = << >>

\* One iteration of the loop: particle i = Len(gridAnchors) gets its anchor
GridStep ==
  /\ Len(gridAnchors) < gridN
  /\ \E draw \in RandomDraws :
       gridAnchors' = Append(gridAnchors,
           NewParticle(Len(gridAnchors), GridWidth(gridN), draw).position)
  /\ UNCHANGED << gridN, sysVars, sceneVars >>

GridNext == GridStep

GridSpec == GridInit /\ [][GridNext]_vars

----------------------------------------------------------------------------
(* The standalone animation script (src/unnamed/part_000) *)

\* window.innerWidth, window.innerHeight of the standalone page
SceneWidths  == { 100, 120, 250 }
SceneHeights == { 100, 120 }

\* backingScale: window.devicePixelRatio if it is above 1, else 1
ScaleFactors == { 1, 2 }

\* The values of Math.random() drawn by one TargetImpl.update()
SceneDraws == { <<0, 0, 0, 0, 0>>, <<999, 500, 250, 750, 999>> }

\* X_MAX_NUM, Y_MAX_NUM: Math.floor(inner / height), height = 110 * scaleFactor
MaxNum(inner, scaleFactor) == inner \div (110 * scaleFactor)

\* targetRad = (2 / (Y_MAX_NUM * 2 - 1)) * 0.35   (used inside the loops,
\* where Y_MAX_NUM >= 1)
TargetRad(yMax) == Mul((2 * One) \div (yMax * 2 - 1), 350)

\* The number of (xx, yy) pairs the two loops of setup00 visit
NumTargets(xMax, yMax) ==
  IF xMax < 1 \/ yMax < 1 THEN 0 ELSE (2 * xMax - 1) * (2 * yMax - 1)

\* TargetImpl.update()
UpdateTarget(t, draw) ==
  [ t EXCEPT !.rotate_speed = Mul(draw[1], 20) + 20,
             !.friction     = Mul(draw[2], 800) + 100,
             !.speed        = Mul(draw[3], 200) + 30,
             !.step         = Mul(draw[4], 200) + 100,
             !.freq         = Mul(draw[5], 200) + 500 ]

\* new TargetImpl(rad)
NewTarget(rad, draw) ==
  UpdateTarget([ x |-> 0, y |-> 0, rotate |-> 0, radius |-> 0, bold_rate |-> rad,
                 rotate_speed |-> 0, friction |-> 0, speed |-> 0, step |-> 0,
                 freq |-> 0 ], draw)

\* The k-th target pushed by setup00 (k from 1): xx runs in the outer loop
\* from -X_MAX_NUM + 1, yy in the inner loop from -Y_MAX_NUM + 1
SetupTarget(k, width, height, xMax, yMax, draw) ==
  LET xx == (1 - xMax) + ((k - 1) \div (2 * yMax - 1))
      yy == (1 - yMax) + ((k - 1) % (2 * yMax - 1))
      widthScale == (width * One) \div height
  IN  [ NewTarget(TargetRad(yMax), draw) EXCEPT
          !.x = Mul((xx * One) \div xMax, widthScale),
          !.y = (yy * One) \div yMax ]

\* targetArr after setup00, which pushes onto the array it finds
Setup00Targets(before, width, height, scaleFactor, draws) ==
  LET xMax == MaxNum(width, scaleFactor)
      yMax == MaxNum(height, scaleFactor)
  IN  before \o [ k \in 1..NumTargets(xMax, yMax) |->
                    SetupTarget(k, width, height, xMax, yMax, draws[k]) ]

\* vertices after setup00: (0, 0, 1.83) twice per line
Setup00Vertices == [ k \in 1..(NumLines * 6) |-> IF k % 3 = 0 THEN 1830 ELSE 0 ]

\* ii % targetArr.length: NaN when the array is empty
TargetIndex(ii, length) == IF length = 0 THEN "NaN" ELSE ii % length

\* The values ii of the loop of draw00: 0, 2, ... below numLines * 2
LineIndices == { ii \in 0..(NumLines * 2 - 1) : ii % 2 = 0 }

\* targetArr after the first loop of draw00
RotateTargets(targets) ==
  [ k \in 1..Len(targets) |->
      [ targets[k] EXCEPT !.rotate = targets[k].rotate + targets[k].rotate_speed ] ]

\* The four floats draw00 writes for line ii: vertices[bp], [bp + 1],
\* [bp + 3], [bp + 4], in this order
Draw00Line(target, vs, ii) ==
  LET bp   == ii * 3
      tRad == Mul(Cos(Mul(target.rotate, 2321) + target.freq * ii), target.bold_rate)
      tX   == target.x + Mul(Cos(target.rotate + target.step * ii), tRad)
      tY   == target.y + Mul(Sin(target.rotate + target.step * ii), tRad)
      px   == vs[bp + 3 + 1] + Mul(tX - vs[bp + 3 + 1], 100)
      py   == vs[bp + 4 + 1] + Mul(tY - vs[bp + 4 + 1], 100)
  IN  << px - 1, py - 1, px, py >>

\* draw00: what it leaves behind.  With an empty targetArr the first
\* iteration reads target.rotate of undefined, which throws a TypeError
\* before any element of vertices is touched.
Draw00(targets, vs) ==
  LET rotated == RotateTargets(targets)
      length  == Len(targets)
      fails   == length = 0 /\ LineIndices # { }
      lineOf(k) == ((k - 1) \div 6) * 2            \* ii of the line slot k is in
      slotOf(k) == (k - 1) % 6                     \* k - 1 - bp
      target(ii) == rotated[TargetIndex(ii, length) + 1]
  IN  [ targets  |-> rotated,
        threw    |-> fails,
        picked   |-> IF fails THEN << "NaN" >>
                     ELSE [ j \in 1..Cardinality(LineIndices) |->
                              TargetIndex(2 * (j - 1), length) ],
        accessed |-> IF fails THEN { }
                     ELSE UNION { { ii * 3, ii * 3 + 1, ii * 3 + 3, ii * 3 + 4 } :
                                  ii \in LineIndices },
        vertices |-> IF fails THEN vs
                     ELSE [ k \in 1..Len(vs) |->
                              IF lineOf(k) \notin LineIndices THEN vs[k]
                              ELSE LET w == Draw00Line(target(lineOf(k)), vs, lineOf(k))
                                   IN  CASE slotOf(k) = 0 -> w[1]
                                         [] slotOf(k) = 1 -> w[2]
                                         [] slotOf(k) = 3 -> w[3]
                                         [] slotOf(k) = 4 -> w[4]
                                         [] OTHER -> vs[k] ] ]

\* The steps of loadScene that alert and return
SceneSteps == << "getContext", "compileVertexShader", "compileFragmentShader",
                 "linkProgram" >>

\* window.onload = loadScene.  Its last statements are animate(), which
\* requests a frame and then draws, and setTimeout(timer, 1500), which a
\* throw of the draw skips.
LoadScene ==
  /\ scene = "unloaded"
  /\ \E fail \in 0..Len(SceneSteps), width \in SceneWidths, height \in SceneHeights,
        scaleFactor \in ScaleFactors :
     \E draws \in [ 1..NumTargets(MaxNum(width, scaleFactor),
                                  MaxNum(height, scaleFactor)) -> SceneDraws ] :
       LET after == Draw00(Setup00Targets(targetArr, width, height, scaleFactor, draws),
                           Setup00Vertices)
       IN  IF fail # 0
           THEN /\ scene' = "failed"
                /\ UNCHANGED << targetArr, lineVertices, picked, accessed, threw,
                                sceneDrawn, sceneFrames, scenePending, timerPending >>
           ELSE /\ scene' = "running"
                /\ targetArr' = after.targets
                /\ lineVertices' = after.vertices
                /\ picked' = after.picked
                /\ accessed' = after.accessed
                /\ threw' = after.threw
                /\ sceneDrawn' = IF after.threw THEN sceneDrawn ELSE NumLines
                /\ sceneFrames' = sceneFrames + 1
                /\ scenePending' = scenePending + 1
                /\ timerPending' = ~after.threw
  /\ UNCHANGED << sysVars, gridVars >>

\* The host fires the pending animation-frame callback: animate requests
\* the next frame, then drawScene draws
SceneFrame ==
  /\ scene = "running"
  /\ scenePending > 0
  /\ sceneFrames < MaxSceneFrames
  /\ LET after == Draw00(targetArr, lineVertices)
     IN  /\ targetArr' = after.targets
         /\ lineVertices' = after.vertices
         /\ picked' = after.picked
         /\ accessed' = after.accessed
         /\ threw' = after.threw
         /\ sceneDrawn' = IF after.threw THEN sceneDrawn ELSE NumLines
  /\ sceneFrames' = sceneFrames + 1
  /\ scenePending' = (scenePending - 1) + 1
  /\ UNCHANGED << scene, timerPending, sysVars, gridVars >>

\* timer: every target draws new parameters; the timeout is set again
SceneTimer ==
  /\ scene = "running"
  /\ timerPending
  /\ \E draws \in [ 1..Len(targetArr) -> SceneDraws ] :
       targetArr' = [ k \in 1..Len(targetArr) |-> UpdateTarget(targetArr[k], draws[k]) ]
  /\ UNCHANGED << scene, lineVertices, picked, accessed, threw, sceneDrawn,
                  sceneFrames, scenePending, timerPending, sysVars, gridVars >>

SceneNext == LoadScene \/ SceneFrame \/ SceneTimer

SceneSpec == Init /\ [][SceneNext]_vars

----------------------------------------------------------------------------
(* Properties *)

Range(seq) == { seq[k] : k \in DOMAIN seq }

\* How many times call c was issued
Count(c, seq) == Cardinality({ k \in DOMAIN seq : seq[k] = c })

\* The position of the first call c
IndexOf(c, seq) == CHOOSE k \in DOMAIN seq : seq[k] = c /\ \A j \in 1..(k - 1) : seq[j] # c

\* Slots 6i .. 6i+5 of the buffer for particle i = k - 1
StartX(buf, k) == buf[6 * (k - 1) + 1]
StartY(buf, k) == buf[6 * (k - 1) + 2]
StartZ(buf, k) == buf[6 * (k - 1) + 3]
EndX(buf, k)   == buf[6 * (k - 1) + 4]
EndY(buf, k)   == buf[6 * (k - 1) + 5]
EndZ(buf, k)   == buf[6 * (k - 1) + 6]

\* The end points of particle i = k - 1 are symmetric about its anchor
Symmetric(buf, ps, k) ==
  /\ StartX(buf, k) + EndX(buf, k) = 2 * ps[k].position.x
  /\ StartY(buf, k) + EndY(buf, k) = 2 * ps[k].position.y
  /\ StartZ(buf, k) = 0
  /\ EndZ(buf, k) = 0

\* C1: after N ticks since a particle was created, its rotation is its
\* initial rotation plus N times its speed (never wrapped, reset or skipped).
C1_RotationLinear ==
  phase # "unloaded" =>
    /\ Len(initialRotation) = Len(particles)
    /\ \A k \in 1..Len(particles) :
         particles[k].rotation = initialRotation[k] + age * particles[k].speed

\* C1 is exercised: several ticks ran, a rotation passed a full turn, and
\* two particles advance at different speeds.
C1_Witness ==
  /\ phase = "running"
  /\ age >= 2
  /\ \E k \in 1..Len(particles) : particles[k].rotation >= TwoPi
  /\ \E j, k \in 1..Len(particles) : particles[j].speed # particles[k].speed

\* C2: once createParticles has run, the vertices buffer holds exactly six
\* floats per particle, under any frames and setParticleCount calls.
C2_BufferLength ==
  phase # "unloaded" => Len(vertices) = Len(particles) * 6

\* C2 is exercised: a frame ran after setParticleCount asked for another
\* count than the one in force.
C2_Witness ==
  /\ phase = "running"
  /\ requested >= 0
  /\ requested # Len(particles)
  /\ Len(particles) > 0
  /\ age >= 1

\* C3 as stated: in every state after the field is created, also right
\* after createParticles or setParticleCount and before the next tick, each
\* particle's end points are symmetric about its anchor, with z = 0.
C3_SymmetricAlways ==
  phase = "running" =>
    \A k \in 1..Len(particles) : Symmetric(vertices, particles, k)

\* C3 amended: once a tick has run on the particles in force (so at every
\* draw), each particle's end points are symmetric about its anchor, with
\* z = 0; between createParticles and the next tick the buffer is all zero.
C3_SymmetricAfterTick ==
  phase # "unloaded" =>
    /\ age >= 1 => \A k \in 1..Len(particles) : Symmetric(vertices, particles, k)
    /\ age = 0 => \A k \in 1..Len(vertices) : vertices[k] = 0

\* C3 is exercised: ticks ran after a setParticleCount and some segment has
\* a non-zero extent in x and in y.
C3_Witness ==
  /\ phase = "running"
  /\ requested >= 0
  /\ age >= 2
  /\ \E k \in 1..Len(particles) :
       /\ StartX(vertices, k) # EndX(vertices, k)
       /\ StartY(vertices, k) # EndY(vertices, k)

\* C4 as stated: after setParticleCount(count) there are exactly count
\* particles, numParticles = count, and the next draw covers count * 2
\* vertices.
C4_CountHonoured ==
  requested >= 0 =>
    /\ numParticles = requested
    /\ Len(particles) = requested
    /\ "drawArrays" \in Range(calls) => drawCount = requested * 2

\* C5: with gridWidth = ceil(sqrt(n)) and cellSize = 2 / gridWidth, particle
\* i is anchored at ((i mod gridWidth) * cellSize - 1,
\* floor(i / gridWidth) * cellSize - 1); both coordinates lie in [-1, 1),
\* the rows used never exceed gridWidth, and no two indices share an anchor.
C5_Grid ==
  /\ \A k \in 1..Len(gridAnchors) :
       \E w \in 1..gridN :
         /\ w * w >= gridN
         /\ (w - 1) * (w - 1) < gridN
         /\ gridAnchors[k].x = ((k - 1) % w) * ((2 * One) \div w) - One
         /\ gridAnchors[k].y = ((k - 1) \div w) * ((2 * One) \div w) - One
         /\ (k - 1) \div w < w
  /\ \A k \in 1..Len(gridAnchors) :
       /\ 0 - One <= gridAnchors[k].x /\ gridAnchors[k].x < One
       /\ 0 - One <= gridAnchors[k].y /\ gridAnchors[k].y < One
  /\ \A j, k \in 1..Len(gridAnchors) : j # k => gridAnchors[j] # gridAnchors[k]

\* C5 is exercised: a count that is no square was placed in full, on more
\* than two rows, the last row partly filled.
C5_Witness ==
  /\ gridN >= 10
  /\ Len(gridAnchors) = gridN
  /\ GridWidth(gridN) * GridWidth(gridN) > gridN
  /\ gridAnchors[gridN].x < gridAnchors[gridN - 1].x + One
  /\ gridAnchors[gridN].y > gridAnchors[1].y

\* C6: every drawArrays call covers two vertices per particle in force,
\* which is a third of the floats of the vertices array and of the uploaded
\* data: no read past the upload, no particle left out.
C6_DrawCount ==
  "drawArrays" \in Range(calls) =>
    /\ numParticles = Len(particles)
    /\ drawCount = 2 * Len(particles)
    /\ drawCount * 3 = Len(vertices)
    /\ drawCount * 3 = Len(uploaded)

\* C6 is exercised: a frame drew after setParticleCount asked for another
\* count than the one in force.
C6_Witness ==
  /\ "drawArrays" \in Range(calls)
  /\ requested >= 0
  /\ requested # numParticles
  /\ drawCount > 0

\* C7: a handler that draws ticks once, then uploads once, then draws, and
\* every slot uploaded is the value of its particle's rotation after that
\* tick; a handler that does not draw neither ticks nor uploads.
C7_FrameRewrite ==
  [][ /\ Count("drawArrays", calls') <= 1
      /\ Count("drawArrays", calls') = 1 =>
           /\ Count("bufferData", calls') = 1
           /\ IndexOf("bufferData", calls') < IndexOf("drawArrays", calls')
           /\ age' = (IF phase = "running" THEN age ELSE 0) + 1
           /\ phase = "running" =>
                \A k \in 1..Len(particles) :
                  particles'[k].rotation = particles[k].rotation + particles[k].speed
           /\ Len(uploaded') = 6 * Len(particles')
           /\ \A k \in 1..Len(particles') :
                SubSeq(uploaded', 6 * (k - 1) + 1, 6 * k) = Segment(particles'[k])
      /\ Count("drawArrays", calls') = 0 =>
           /\ Count("bufferData", calls') = 0
           /\ uploaded' = uploaded
           /\ age' \in { age, 0 }
    ]_vars

\* C7 is exercised: frames drew after a setParticleCount, and the upload is
\* the buffer in full, no slot of a start point left at its initial zero.
C7_Witness ==
  /\ "drawArrays" \in Range(calls)
  /\ requested >= 0
  /\ age >= 2
  /\ uploaded = vertices
  /\ Len(uploaded) > 0
  /\ \A k \in 1..Len(particles) : StartX(uploaded, k) # 0 /\ StartY(uploaded, k) # 0

\* C8: a tick leaves every particle's position, speed and radius, the
\* number of particles, numParticles and the buffer length as they were.
C8_TickFrame ==
  [][ (phase = "running" /\ age' = age + 1) =>
        /\ Len(particles') = Len(particles)
        /\ \A k \in 1..Len(particles) :
             /\ particles'[k].position = particles[k].position
             /\ particles'[k].speed = particles[k].speed
             /\ particles'[k].radius = particles[k].radius
             /\ particles'[k].rotation # particles[k].rotation
        /\ numParticles' = numParticles
        /\ Len(vertices') = Len(vertices)
    ]_vars

\* C8 is exercised: a tick ran on particles that had ticked before, of
\* different radius and speed.
C8_Witness ==
  /\ phase = "running"
  /\ age = MaxTicks
  /\ "drawArrays" \in Range(calls)
  /\ \E j, k \in 1..Len(particles) :
       /\ particles[j].radius # particles[k].radius
       /\ particles[j].speed # particles[k].speed

\* C9: a step of the constructor that fails throws there: no later step
\* runs, no tick, upload or draw is ever issued (particles made before a
\* failing createBuffer keep their initial rotation, the vertices stay
\* zero), no animation frame is ever requested, the error is logged once
\* and construction is never retried.
C9_FatalInit ==
  /\ [](phase = "failed" =>
          /\ failedAt \in 1..NumInitSteps
          /\ stepsDone = SubSeq(InitSteps, 1, failedAt - 1)
          /\ errorsLogged = 1
          /\ age = 0
          /\ Rotations(particles) = initialRotation
          /\ \A k \in 1..Len(vertices) : vertices[k] = 0
          /\ particles # << >> => failedAt = NumInitSteps
          /\ uploaded = << >>
          /\ drawCount = -1
          /\ pendingFrames = 0
          /\ Range(calls) \subseteq { "viewport", "createBuffer" })
  /\ [][ phase = "failed" =>
           /\ phase' = "failed"
           /\ failedAt' = failedAt
           /\ stepsDone' = stepsDone
           /\ errorsLogged' = errorsLogged ]_vars
  /\ [][ phase' = "running" => phase \in { "unloaded", "running" } ]_vars

\* C9 is exercised: the last step (the vertex buffer) failed, after the
\* particles were made and the resize listener was registered, and a
\* resize event came afterwards.
C9_Witness ==
  /\ phase = "failed"
  /\ failedAt = NumInitSteps
  /\ Len(particles) = DefaultNumParticles
  /\ resizeListeners = 1
  /\ calls = << "viewport" >>

\* C10: once constructed, exactly one animation-frame callback is pending
\* in every state; every callback draws once and then requests the next;
\* and, the host firing every pending callback, each frame is followed by
\* another (as long as the model's bound on the ticks allows one).
C10_FrameLoop ==
  /\ [](phase = "running" => pendingFrames = 1)
  /\ [](phase # "running" => pendingFrames = 0)
  /\ [][ "requestAnimationFrame" \in Range(calls') =>
           /\ Count("requestAnimationFrame", calls') = 1
           /\ Count("drawArrays", calls') = 1
           /\ IndexOf("drawArrays", calls') < IndexOf("requestAnimationFrame", calls')
           /\ frameBit' # frameBit ]_vars
  /\ [][ frameBit' # frameBit => "requestAnimationFrame" \in Range(calls') ]_vars
  /\ \A b \in { 0, 1 } :
       (phase = "running" /\ age < MaxTicks /\ frameBit = b) ~> (frameBit = 1 - b)

\* C10 is exercised: frames ran after a setParticleCount and a cleanup, on
\* a canvas sized without a device pixel ratio, and one callback is pending.
C10_Witness ==
  /\ phase = "running"
  /\ pendingFrames = 1
  /\ requested >= 0
  /\ cleaned
  /\ canvas = CanvasSize(<<800, 600>>, 0)
  /\ age >= 2
  /\ calls = AnimateCalls

\* C11 as stated: once cleanup() has returned, no handler calls the
\* graphics backend again: the resize listener no longer runs (no viewport)
\* and no frame uploads or draws with the deleted program and buffer.
C11_QuietAfterCleanup ==
  cleaned =>
    Range(calls) \cap { "viewport", "clear", "bufferData", "drawArrays", "flush" } = { }

\* C12 as stated: every draw00 touches vertices only at indices of
\* [0, numLines * 6) and finds a target for every line it visits, whatever
\* the viewport, also when setup00 made no target; so no frame throws.
C12_Draw00Safe ==
  scene = "running" =>
    /\ accessed \subseteq 0..(NumLines * 6 - 1)
    /\ \A j \in 1..Len(picked) : picked[j] \in 0..(Len(targetArr) - 1)
    /\ ~threw

====
